---- MODULE Spec2Model ----
(***************************************************************************)
(* A model of src/app.py: the recursive extraction walk                    *)
(* process_pst_folder and the request handler analyze_pst around it.       *)
(*                                                                         *)
(* Text is a sequence of one-character strings.  A raw value returned by   *)
(* the store adapter (pypff) is a record                                   *)
(*     [t, utf8ok, text, alt]                                              *)
(* t = "none" (None), "str" (text) or "bytes"; for bytes, text is the      *)
(* UTF-8 decoding when utf8ok, and alt is the Latin-1 decoding.            *)
(* A folder is named by its path from the root (0-based subfolder          *)
(* indexes), a message by its folder's path and its index.                 *)
(***************************************************************************)
EXTENDS Naturals, Sequences, FiniteSets

\* ------------------------------------------------------------- bounds

\* Largest number of messages a folder of an archive holds.
MaxMsgs == 2

\* Largest number of failing adapter or sink calls in one extraction run.
MaxFaults == 2

\* Largest value of the wall clock, in seconds.
MaxClock == 1

\* -------------------------------------------------- program constants

MAX_FILE_SIZE == 100 * 1024 * 1024

UPLOAD_FOLDER == "uploads"

\* ------------------------------------------------------- text helpers

Digit(n) == <<"0", "1", "2", "3", "4", "5", "6", "7", "8", "9">>[n + 1]

NoneValue == [t |-> "none", utf8ok |-> TRUE, text |-> <<>>, alt |-> <<>>]

Str(s) == [t |-> "str", utf8ok |-> TRUE, text |-> s, alt |-> s]

Utf8Bytes(s) == [t |-> "bytes", utf8ok |-> TRUE, text |-> s, alt |-> s]

Latin1Bytes(s) == [t |-> "bytes", utf8ok |-> FALSE, text |-> <<>>, alt |-> s]

\* decode_if_bytes: bytes decode as UTF-8, else as Latin-1 (which accepts
\* every byte sequence); None gives ''; text gives itself.
decode_if_bytes(value) ==
    IF value.t = "bytes"
    THEN IF value.utf8ok THEN value.text ELSE value.alt
    ELSE IF value.t = "none" THEN <<>> ELSE value.text

\* Python truthiness of a raw value: None, '' and b'' are false.
Truthy(value) ==
    /\ value.t # "none"
    /\ Len(IF value.t = "bytes" /\ ~value.utf8ok THEN value.alt ELSE value.text) > 0

\* str.lower() on one character.
Lower(c) ==
    IF c = "T" THEN "t" ELSE IF c = "O" THEN "o" ELSE c

IsSpace(c) == c \in {" ", "\t", "\r", "\n"}

LStrip[s \in Seq(STRING)] ==
    IF s # <<>> /\ IsSpace(Head(s)) THEN LStrip[Tail(s)] ELSE s

RStrip[s \in Seq(STRING)] ==
    IF s # <<>> /\ IsSpace(s[Len(s)]) THEN RStrip[SubSeq(s, 1, Len(s) - 1)] ELSE s

\* str.strip()
Strip(s) == RStrip[LStrip[s]]

\* str.split('\n'): the lines of s, from the left.
SplitLines[s \in Seq(STRING), cur \in Seq(STRING), acc \in Seq(Seq(STRING))] ==
    IF s = <<>> THEN Append(acc, cur)
    ELSE IF Head(s) = "\n" THEN SplitLines[Tail(s), <<>>, Append(acc, cur)]
    ELSE SplitLines[Tail(s), Append(cur, Head(s)), acc]

\* line.lower().startswith('to:')
StartsWithTo(line) ==
    /\ Len(line) >= 3
    /\ Lower(line[1]) = "t"
    /\ Lower(line[2]) = "o"
    /\ Lower(line[3]) = ":"

\* The loop of lines 80-83: the first line that starts with 'to:' gives
\* its remainder, stripped; no such line gives ''.
FirstTo[lines \in Seq(Seq(STRING))] ==
    IF lines = <<>> THEN <<>>
    ELSE IF StartsWithTo(Head(lines))
         THEN Strip(SubSeq(Head(lines), 4, Len(Head(lines))))
         ELSE FirstTo[Tail(lines)]

\* Lines 78-83: the recipient read from the decoded transport headers.
ToOfHeaders ==
    [headers \in Seq(STRING) |->
        IF headers # <<>> THEN FirstTo[SplitLines[headers, <<>>, <<>>]] ELSE <<>>]

\* Lines 77-83.
ExtractTo(rawHeaders) == ToOfHeaders[decode_if_bytes(rawHeaders)]

\* ', '.join(names)
Join[names \in Seq(Seq(STRING))] ==
    IF names = <<>> THEN <<>>
    ELSE IF Len(names) = 1 THEN names[1]
    ELSE names[1] \o <<",", " ">> \o Join[Tail(names)]

\* str(delivery_time): a datetime renders as its text, None as 'None'.
StrOfTime(dt) ==
    IF dt.present THEN dt.repr ELSE <<"N", "o", "n", "e">>

\* What csv.writer writes for a field that is not a string: None is written
\* as the empty string, anything else as str(field).
CsvFieldOfTime(dt) ==
    IF dt.present THEN StrOfTime(dt) ELSE <<>>

\* ---------------------------------------------------------- archives

\* The requests of the model.
Requests == {1, 2}

\* What the store adapter serves for message i of the folder at path:
\* the contents differ with the message's place, so that present and absent
\* fields, text and bytes, and every kind of attachment slot occur.  The
\* subject names the message.
SubjectOf(path, i) ==
    <<"m">> \o [k \in 1..Len(path) |-> Digit(path[k])] \o <<".", Digit(i)>>

Message(path, i) ==
    LET v == (i + Len(path)) % 3
    IN  [sender |-> IF v = 0 THEN Str(<<"a", "n", "n">>)
                    ELSE IF v = 1 THEN NoneValue
                    ELSE Latin1Bytes(<<"b", "o">>),
         subject |-> Str(SubjectOf(path, i)),
         body |-> IF v = 0 THEN Utf8Bytes(<<"h", "i", ",", "\n", "x">>)
                  ELSE IF v = 1 THEN Latin1Bytes(<<"\"", "q">>)
                  ELSE NoneValue,
         delivery_time |-> IF v = 1
                           THEN [present |-> FALSE, repr |-> <<>>]
                           ELSE [present |-> TRUE,
                                 repr |-> <<"2", "0", "2", Digit(i), " ", "1", "0", ":", "0", Digit(v)>>],
         headers |-> IF v = 0
                     THEN Str(<<"F", ":", "a", "\n", "T", "O", ":", " ", "b", "@", "c", " ",
                                "\n", "t", "o", ":", "z">>)
                     ELSE IF v = 1 THEN NoneValue
                     ELSE Utf8Bytes(<<"C", "c", ":", "c">>),
         attachments |-> IF v = 0
                         THEN << [long |-> Str(<<"f", ".", "t">>), short |-> Str(<<"F", "~">>)],
                                 [long |-> NoneValue, short |-> Utf8Bytes(<<"G", "~">>)] >>
                         ELSE IF v = 1
                         THEN << [long |-> Str(<<>>), short |-> NoneValue],
                                 [long |-> Latin1Bytes(<<"h">>), short |-> NoneValue] >>
                         ELSE << >> ]

\* The folder trees served: a set of folder paths (closed under prefixes, the
\* subfolder indexes of a folder contiguous from 0), every folder holding
\* nmsgs messages.
WideFolders == {<<>>, <<0>>, <<1>>, <<1, 0>>}

SmallFolders == {<<>>, <<0>>}

Archives == [folders : {WideFolders}, nmsgs : 0..MaxMsgs]

SmallArchives == [folders : {SmallFolders}, nmsgs : {0, 1}]

\* folder.get_number_of_sub_folders()
SubFolderCount(a, path) ==
    Cardinality({q \in a.folders :
                    /\ Len(q) = Len(path) + 1
                    /\ SubSeq(q, 1, Len(path)) = path})

\* folder.get_number_of_sub_messages()
MessageCount(a, path) == a.nmsgs

\* -------------------------------------------------------------- state

VARIABLES
    now,           \* the wall clock, in seconds (datetime.datetime.now())
    files,         \* the upload directory: path -> [owner, whole]
    archive,       \* per request: the archive its upload holds
    budget,        \* per request: the failing calls its run may still meet
    pc,            \* per request: where its handler stands
    temp_path,     \* per request: temp_path (<<>> is None)
    csv_path,      \* per request: csv_path (<<>> before line 190)
    saved,         \* per request: file.save(temp_path) has returned
    opened,        \* per request: whose upload pst.open read (0: none)
    stack,         \* per request: the active process_pst_folder calls
    emails,        \* per request: the list emails
    rows,          \* per request: the rows written to csv_data
    faults,        \* per request: the calls that raised during the walk
    response       \* per request: the response returned

vars == <<now, files, archive, budget, pc, temp_path, csv_path, saved, opened,
          stack, emails, rows, faults, response>>

walkVars == <<stack, emails, rows, faults>>

\* What process_pst_folder leaves alone.
handlerVars == <<now, files, archive, budget, temp_path, csv_path, saved, opened, response>>

\* What no step of a handler changes.
envVars == <<now, archive, budget>>

NoResponse == [status |-> 0, error |-> "", emails |-> <<>>, csv_url |-> <<>>]

ErrorResponse(status, error) ==
    [status |-> status, error |-> error, emails |-> <<>>, csv_url |-> <<>>]

\* The row of line 180.
HeaderRow ==
    << <<"F", "r", "o", "m">>, <<"T", "o">>, <<"S", "u", "b", "j", "e", "c", "t">>,
       <<"B", "o", "d", "y">>, <<"D", "a", "t", "e">>,
       <<"A", "t", "t", "a", "c", "h", "m", "e", "n", "t", "s">> >>

\* f"temp_{now:%Y%m%d_%H%M%S}.pst" under UPLOAD_FOLDER: the name holds the
\* time to the second and nothing else.
TempName(t) == <<UPLOAD_FOLDER, "temp_", t, ".pst">>

\* f"extracted_emails_{now:%Y%m%d_%H%M%S}.csv" under UPLOAD_FOLDER.
CsvName(t) == <<UPLOAD_FOLDER, "extracted_emails_", t, ".csv">>

Exists(path) == path \in DOMAIN files

WriteFile(path, r, whole) ==
    [q \in DOMAIN files \cup {path} |->
        IF q = path THEN [owner |-> r, whole |-> whole] ELSE files[q]]

RemoveFile(path) == [q \in DOMAIN files \ {path} |-> files[q]]

\* ------------------------------------------------ process_pst_folder

Fault(k, path, i, j) == [k |-> k, p |-> path, i |-> i, j |-> j]

Top(r) == stack[r][Len(stack[r])]

Tree(r) == archive[opened[r]]

CanFail(r, n) == Cardinality(faults[r]) + n <= budget[r]

Frame(path) == [path |-> path, phase |-> "enter", i |-> 0, n |-> 0]

SetTop(r, frame) ==
    [stack EXCEPT ![r] = [@ EXCEPT ![Len(@)] = frame]]

\* The call on top returns: to its caller's loop over the subfolders, or,
\* for the root's call, to analyze_pst at line 183.
Return(r) ==
    /\ stack' = [stack EXCEPT ![r] = SubSeq(@, 1, Len(@) - 1)]
    /\ pc' = [pc EXCEPT ![r] = IF Len(stack[r]) = 1 THEN "close" ELSE @]

\* The except clause of line 129: the call on top logs and returns.
FolderExcept(r, fault) ==
    /\ faults' = [faults EXCEPT ![r] = @ \cup {fault}]
    /\ Return(r)

Walking(r, phase) ==
    /\ pc[r] = "traverse"
    /\ stack[r] # <<>>
    /\ Top(r).phase = phase

\* Line 65, the count is read.
ReadMessageCount(r) ==
    /\ Walking(r, "enter")
    /\ stack' = SetTop(r, [Top(r) EXCEPT !.phase = "msgs", !.i = 0,
                                         !.n = MessageCount(Tree(r), Top(r).path)])
    /\ UNCHANGED <<pc, emails, rows, faults, handlerVars>>

\* Line 65 raises.
MessageCountFails(r) ==
    /\ Walking(r, "enter")
    /\ CanFail(r, 1)
    /\ FolderExcept(r, Fault("msgcount", Top(r).path, 0, 0))
    /\ UNCHANGED <<emails, rows, handlerVars>>

\* The calls of lines 70-77, any of which may raise.
ReadStages == {"get_sub_message", "get_sender_name", "get_subject",
               "get_plain_text_body", "get_delivery_time", "get_transport_headers"}

\* MessageReadFails with a break for the continue of line 123.
MessageReadFailsBreaks(r) ==
    /\ Walking(r, "msgs")
    /\ Top(r).i < Top(r).n
    /\ CanFail(r, 1)
    /\ faults' = [faults EXCEPT ![r] = @ \cup {Fault("read", Top(r).path, Top(r).i, 0)}]
    /\ stack' = SetTop(r, [Top(r) EXCEPT !.i = Top(r).n])
    /\ UNCHANGED <<pc, emails, rows, handlerVars>>

\* Lines 70-77 raise for message i: line 121 logs, the loop goes on.
MessageReadFails(r) ==
    /\ Walking(r, "msgs")
    /\ Top(r).i < Top(r).n
    /\ CanFail(r, 1)
    /\ \E stage \in ReadStages :
          faults' = [faults EXCEPT ![r] = @ \cup {Fault("read", Top(r).path, Top(r).i, 0)}]
    /\ stack' = SetTop(r, [Top(r) EXCEPT !.i = @ + 1])
    /\ UNCHANGED <<pc, emails, rows, handlerVars>>

\* AttachmentLoop with the try of line 89 around the loop, not in it: a slot
\* that raises ends the loop.
RECURSIVE AttachmentLoopStops(_, _, _, _)
AttachmentLoopStops(slots, j, bad, acc) ==
    IF j >= Len(slots) THEN acc
    ELSE IF j \in bad THEN acc
    ELSE LET long == slots[j + 1].long
             name == IF ~Truthy(long) THEN slots[j + 1].short ELSE long
         IN  AttachmentLoopStops(slots, j + 1, bad,
                 IF Truthy(name) THEN Append(acc, decode_if_bytes(name)) ELSE acc)

\* Lines 88-97: slot j on, names resolved so far in acc; bad holds the
\* slots for which a call raises.
RECURSIVE AttachmentLoop(_, _, _, _)
AttachmentLoop(slots, j, bad, acc) ==
    IF j >= Len(slots) THEN acc
    ELSE IF j \in bad THEN AttachmentLoop(slots, j + 1, bad, acc)
    ELSE LET long == slots[j + 1].long
             name == IF ~Truthy(long) THEN slots[j + 1].short ELSE long
         IN  AttachmentLoop(slots, j + 1, bad,
                 IF Truthy(name) THEN Append(acc, decode_if_bytes(name)) ELSE acc)

\* Lines 85-100: countFails says get_number_of_attachments raises.
ResolveAttachments(msg, countFails, bad) ==
    IF countFails THEN <<>> ELSE AttachmentLoop(msg.attachments, 0, bad, <<>>)

\* Lines 72-109: email_data.
EmailData(msg, countFails, bad) ==
    [from |-> decode_if_bytes(msg.sender),
     to |-> ExtractTo(msg.headers),
     subject |-> decode_if_bytes(msg.subject),
     body |-> decode_if_bytes(msg.body),
     date |-> StrOfTime(msg.delivery_time),
     attachments |-> ResolveAttachments(msg, countFails, bad)]

\* Lines 112-119: the row csv_writer.writerow receives, as it writes it.
CsvRow(msg, countFails, bad) ==
    << decode_if_bytes(msg.sender),
       ExtractTo(msg.headers),
       decode_if_bytes(msg.subject),
       decode_if_bytes(msg.body),
       CsvFieldOfTime(msg.delivery_time),
       Join[ResolveAttachments(msg, countFails, bad)] >>

\* The ways the attachment calls of one message can raise: the count, or
\* some of the slots.
AttachmentOutcomes(msg) ==
    {[countFails |-> TRUE, bad |-> {}]}
      \cup {[countFails |-> FALSE, bad |-> b] : b \in SUBSET (0..(Len(msg.attachments) - 1))}

AttachmentFaults(path, i, out) ==
    IF out.countFails THEN {Fault("attcount", path, i, 0)}
    ELSE {Fault("slot", path, i, j) : j \in out.bad}

\* AppendEmail with emails.insert(0, email_data) for the append.
PrependEmail(r, msg, out) ==
    emails' = [emails EXCEPT ![r] = <<EmailData(msg, out.countFails, out.bad)>> \o @]

\* Line 111.
AppendEmail(r, msg, out) ==
    emails' = [emails EXCEPT ![r] = Append(@, EmailData(msg, out.countFails, out.bad))]

\* Lines 70-119 for message i, no call of lines 70-77 raising and the row
\* written.
MessageEmitted(r) ==
    /\ Walking(r, "msgs")
    /\ Top(r).i < Top(r).n
    /\ LET path == Top(r).path
           i == Top(r).i
           msg == Message(path, i)
       IN  \E out \in AttachmentOutcomes(msg) :
              /\ CanFail(r, Cardinality(AttachmentFaults(path, i, out)))
              /\ AppendEmail(r, msg, out)
              /\ rows' = [rows EXCEPT ![r] = Append(@, CsvRow(msg, out.countFails, out.bad))]
              /\ faults' = [faults EXCEPT ![r] = @ \cup AttachmentFaults(path, i, out)]
    /\ stack' = SetTop(r, [Top(r) EXCEPT !.i = @ + 1])
    /\ UNCHANGED <<pc, handlerVars>>

\* Lines 70-119 for message i, csv_writer.writerow raising at line 112:
\* line 111 has run, line 121 logs, the loop goes on.
MessageRowFails(r) ==
    /\ Walking(r, "msgs")
    /\ Top(r).i < Top(r).n
    /\ LET path == Top(r).path
           i == Top(r).i
           msg == Message(path, i)
       IN  \E out \in AttachmentOutcomes(msg) :
              /\ CanFail(r, Cardinality(AttachmentFaults(path, i, out)) + 1)
              /\ AppendEmail(r, msg, out)
              /\ faults' = [faults EXCEPT ![r] =
                               @ \cup AttachmentFaults(path, i, out)
                                 \cup {Fault("sink", path, i, 0)}]
    /\ stack' = SetTop(r, [Top(r) EXCEPT !.i = @ + 1])
    /\ UNCHANGED <<pc, rows, handlerVars>>

\* Line 125, the messages done: the count of subfolders is read, once.
ReadSubFolderCount(r) ==
    /\ Walking(r, "msgs")
    /\ Top(r).i = Top(r).n
    /\ stack' = SetTop(r, [Top(r) EXCEPT !.phase = "subs", !.i = 0,
                                         !.n = SubFolderCount(Tree(r), Top(r).path)])
    /\ UNCHANGED <<pc, emails, rows, faults, handlerVars>>

\* SubFolderCountFails with the failure taken for a count read: the
\* subfolders are walked all the same.
SubFolderCountFailsWalksOn(r) ==
    /\ Walking(r, "msgs")
    /\ Top(r).i = Top(r).n
    /\ CanFail(r, 1)
    /\ faults' = [faults EXCEPT ![r] = @ \cup {Fault("subcount", Top(r).path, 0, 0)}]
    /\ stack' = SetTop(r, [Top(r) EXCEPT !.phase = "subs", !.i = 0,
                                         !.n = SubFolderCount(Tree(r), Top(r).path)])
    /\ UNCHANGED <<pc, emails, rows, handlerVars>>

\* Line 125 raises.
SubFolderCountFails(r) ==
    /\ Walking(r, "msgs")
    /\ Top(r).i = Top(r).n
    /\ CanFail(r, 1)
    /\ FolderExcept(r, Fault("subcount", Top(r).path, 0, 0))
    /\ UNCHANGED <<emails, rows, handlerVars>>

\* Lines 126-127: subfolder i is obtained and the call on it starts; the
\* caller resumes at i + 1.
EnterSubFolder(r) ==
    /\ Walking(r, "subs")
    /\ Top(r).i < Top(r).n
    /\ stack' = [stack EXCEPT ![r] =
                    Append([@ EXCEPT ![Len(@)] = [Top(r) EXCEPT !.i = @ + 1]],
                           Frame(Top(r).path \o <<Top(r).i>>))]
    /\ UNCHANGED <<pc, emails, rows, faults, handlerVars>>

\* Line 126 raises: the exception leaves the loop of line 125 for the
\* except clause of line 129.
GetSubFolderFails(r) ==
    /\ Walking(r, "subs")
    /\ Top(r).i < Top(r).n
    /\ CanFail(r, 1)
    /\ FolderExcept(r, Fault("handle", Top(r).path \o <<Top(r).i>>, 0, 0))
    /\ UNCHANGED <<emails, rows, handlerVars>>

\* The loop of line 125 ends and the call returns.
FolderDone(r) ==
    /\ Walking(r, "subs")
    /\ Top(r).i = Top(r).n
    /\ Return(r)
    /\ UNCHANGED <<emails, rows, faults, handlerVars>>

process_pst_folder(r) ==
    \/ ReadMessageCount(r)
    \/ MessageCountFails(r)
    \/ MessageReadFails(r)
    \/ MessageEmitted(r)
    \/ MessageRowFails(r)
    \/ ReadSubFolderCount(r)
    \/ SubFolderCountFails(r)
    \/ EnterSubFolder(r)
    \/ GetSubFolderFails(r)
    \/ FolderDone(r)

\* ------------------------------------------------------- analyze_pst

PstSuffix == <<".", "p", "s", "t">>

\* file.filename.endswith('.pst')
EndsWithPst(name) ==
    /\ Len(name) >= Len(PstSuffix)
    /\ SubSeq(name, Len(name) - Len(PstSuffix) + 1, Len(name)) = PstSuffix

\* The uploads a request may carry: with or without the part 'file', its
\* filename and its size in bytes.
Uploads ==
    [hasFile : BOOLEAN,
     filename : {<<>>, <<"a", ".", "p", "s", "t">>, <<"a", ".", "t", "x", "t">>, <<"p", "s", "t">>},
     size : {0, MAX_FILE_SIZE, MAX_FILE_SIZE + 1}]

EmptyResultResponse == ErrorResponse(400, "No emails found in PST file")

\* What line 210 answers: 500 with str(e); the text tells which call raised.
ExceptionResponse(cause) == ErrorResponse(500, cause)

\* An exception that leaves analyze_pst: the framework's answer.
UnhandledResponse == ErrorResponse(500, "unhandled")

InFlight(r) == pc[r] \notin {"idle", "done"}

Goto(r, label) == pc' = [pc EXCEPT ![r] = label]

Answer(r, resp) == response' = [response EXCEPT ![r] = resp]

\* Lines 143-163: the checks before the try block, each an early return.
Validate(r) ==
    /\ pc[r] = "idle"
    /\ \E up \in Uploads :
          IF ~up.hasFile
          THEN Answer(r, ErrorResponse(400, "No file part")) /\ Goto(r, "done")
          ELSE IF up.filename = <<>>
          THEN Answer(r, ErrorResponse(400, "No selected file")) /\ Goto(r, "done")
          ELSE IF ~EndsWithPst(up.filename)
          THEN Answer(r, ErrorResponse(400, "Invalid file type")) /\ Goto(r, "done")
          ELSE IF up.size > MAX_FILE_SIZE
          THEN Answer(r, ErrorResponse(413, "File size exceeds maximum")) /\ Goto(r, "done")
          ELSE Goto(r, "name") /\ UNCHANGED response
    /\ UNCHANGED <<files, temp_path, csv_path, saved, opened, walkVars, envVars>>

\* Line 169.
MakeTempPath(r) ==
    /\ pc[r] = "name"
    /\ temp_path' = [temp_path EXCEPT ![r] = TempName(now)]
    /\ Goto(r, "save")
    /\ UNCHANGED <<files, csv_path, saved, opened, walkVars, response, envVars>>

\* Line 170: the upload is written to temp_path, over what is there.
SaveUpload(r) ==
    /\ pc[r] = "save"
    /\ files' = WriteFile(temp_path[r], r, TRUE)
    /\ saved' = [saved EXCEPT ![r] = TRUE]
    /\ Goto(r, "open")
    /\ UNCHANGED <<temp_path, csv_path, opened, walkVars, response, envVars>>

\* Line 170 raises, with or without a part of the upload written.
SaveFails(r) ==
    /\ pc[r] = "save"
    /\ \E partial \in BOOLEAN :
          files' = IF partial THEN WriteFile(temp_path[r], r, FALSE) ELSE files
    /\ Answer(r, ExceptionResponse("save"))
    /\ Goto(r, "finally")
    /\ UNCHANGED <<temp_path, csv_path, saved, opened, walkVars, envVars>>

\* Lines 173-182: the store at temp_path is opened, csv_data gets its header
\* row and process_pst_folder is called on the root folder.
OpenStore(r) ==
    /\ pc[r] = "open"
    /\ Exists(temp_path[r])
    /\ files[temp_path[r]].whole
    /\ opened' = [opened EXCEPT ![r] = files[temp_path[r]].owner]
    /\ emails' = [emails EXCEPT ![r] = <<>>]
    /\ rows' = [rows EXCEPT ![r] = <<HeaderRow>>]
    /\ stack' = [stack EXCEPT ![r] = <<Frame(<<>>)>>]
    /\ Goto(r, "traverse")
    /\ UNCHANGED <<files, temp_path, csv_path, saved, faults, response, envVars>>

\* OpenFails with the removal of temp_path at the end of the try block, not
\* in a finally clause.
OpenFailsNoCleanup(r) ==
    /\ pc[r] = "open"
    /\ Answer(r, ExceptionResponse("open"))
    /\ Goto(r, "done")
    /\ UNCHANGED <<files, temp_path, csv_path, saved, opened, walkVars, envVars>>

\* Line 174 or 175 raises: no file at temp_path, or a store that cannot be
\* read.
OpenFails(r) ==
    /\ pc[r] = "open"
    /\ Answer(r, ExceptionResponse("open"))
    /\ Goto(r, "finally")
    /\ UNCHANGED <<files, temp_path, csv_path, saved, opened, walkVars, envVars>>

\* Line 183.
CloseStore(r) ==
    /\ pc[r] = "close"
    /\ Goto(r, "check")
    /\ UNCHANGED <<files, temp_path, csv_path, saved, opened, walkVars, response, envVars>>

\* Line 183 raises.
CloseFails(r) ==
    /\ pc[r] = "close"
    /\ Answer(r, ExceptionResponse("close"))
    /\ Goto(r, "finally")
    /\ UNCHANGED <<files, temp_path, csv_path, saved, opened, walkVars, envVars>>

\* Lines 186-187.
EmptyResult(r) ==
    /\ pc[r] = "check"
    /\ Len(emails[r]) = 0
    /\ Answer(r, EmptyResultResponse)
    /\ Goto(r, "finally")
    /\ UNCHANGED <<files, temp_path, csv_path, saved, opened, walkVars, envVars>>

\* Lines 186-190, some email found.
MakeCsvPath(r) ==
    /\ pc[r] = "check"
    /\ Len(emails[r]) # 0
    /\ csv_path' = [csv_path EXCEPT ![r] = CsvName(now)]
    /\ Goto(r, "write")
    /\ UNCHANGED <<files, temp_path, saved, opened, walkVars, response, envVars>>

\* Lines 191-192: csv_data is written to csv_path, over what is there.
WriteCsv(r) ==
    /\ pc[r] = "write"
    /\ files' = WriteFile(csv_path[r], r, TRUE)
    /\ Goto(r, "respond")
    /\ UNCHANGED <<temp_path, csv_path, saved, opened, walkVars, response, envVars>>

\* Line 191 or 192 raises, with or without a part of the table written.
WriteCsvFails(r) ==
    /\ pc[r] = "write"
    /\ \E partial \in BOOLEAN :
          files' = IF partial THEN WriteFile(csv_path[r], r, FALSE) ELSE files
    /\ Answer(r, ExceptionResponse("write"))
    /\ Goto(r, "finally")
    /\ UNCHANGED <<temp_path, csv_path, saved, opened, walkVars, envVars>>

\* Lines 197-202.
Respond(r) ==
    /\ pc[r] = "respond"
    /\ Answer(r, [status |-> 200, error |-> "", emails |-> emails[r],
                  csv_url |-> csv_path[r]])
    /\ Goto(r, "finally")
    /\ UNCHANGED <<files, temp_path, csv_path, saved, opened, walkVars, envVars>>

\* Lines 203-205: json.dumps raises TypeError.  (Every value of emails is
\* text, so this path is taken by no run of the code; the model keeps it
\* as an exit the handler has.)
SerializeFails(r) ==
    /\ pc[r] = "respond"
    /\ Answer(r, ErrorResponse(500, "Data contains non-serializable values"))
    /\ Goto(r, "finally")
    /\ UNCHANGED <<files, temp_path, csv_path, saved, opened, walkVars, envVars>>

\* Line 213.
CheckTempExists(r) ==
    /\ pc[r] = "finally"
    /\ Goto(r, IF temp_path[r] # <<>> /\ Exists(temp_path[r]) THEN "remove" ELSE "done")
    /\ UNCHANGED <<files, temp_path, csv_path, saved, opened, walkVars, response, envVars>>

\* Line 214: os.remove removes the file, or raises when it is no longer there,
\* and the exception replaces the response.
RemoveTemp(r) ==
    /\ pc[r] = "remove"
    /\ IF Exists(temp_path[r])
       THEN files' = RemoveFile(temp_path[r]) /\ UNCHANGED response
       ELSE Answer(r, UnhandledResponse) /\ UNCHANGED files
    /\ Goto(r, "done")
    /\ UNCHANGED <<temp_path, csv_path, saved, opened, walkVars, envVars>>

\* The walk as one step: what process_pst_folder(root, [], csv_writer)
\* leaves in emails and csv_data when the calls of oracle raise and no other
\* does.  The walk reads and writes nothing another request can see.
RECURSIVE WalkFolder(_, _, _, _)
RECURSIVE WalkMessages(_, _, _, _, _)
RECURSIVE WalkSubFolders(_, _, _, _, _)

\* Lines 68-123, from message i on.
WalkMessages(a, path, i, oracle, out) ==
    IF i >= MessageCount(a, path) THEN out
    ELSE IF Fault("read", path, i, 0) \in oracle
    THEN WalkMessages(a, path, i + 1, oracle, out)
    ELSE LET msg == Message(path, i)
             countFails == Fault("attcount", path, i, 0) \in oracle
             bad == {j \in 0..(Len(msg.attachments) - 1) : Fault("slot", path, i, j) \in oracle}
             appended == [out EXCEPT !.emails = Append(@, EmailData(msg, countFails, bad))]
         IN  IF Fault("sink", path, i, 0) \in oracle
             THEN WalkMessages(a, path, i + 1, oracle, appended)
             ELSE WalkMessages(a, path, i + 1, oracle,
                      [appended EXCEPT !.rows = Append(@, CsvRow(msg, countFails, bad))])

\* Lines 125-127, from subfolder i on.
WalkSubFolders(a, path, i, oracle, out) ==
    IF i >= SubFolderCount(a, path) THEN out
    ELSE IF Fault("handle", path \o <<i>>, 0, 0) \in oracle THEN out
    ELSE WalkSubFolders(a, path, i + 1, oracle, WalkFolder(a, path \o <<i>>, oracle, out))

\* Lines 62-130.
WalkFolder(a, path, oracle, out) ==
    IF Fault("msgcount", path, 0, 0) \in oracle THEN out
    ELSE LET afterMessages == WalkMessages(a, path, 0, oracle, out)
         IN  IF Fault("subcount", path, 0, 0) \in oracle THEN afterMessages
             ELSE WalkSubFolders(a, path, 0, oracle, afterMessages)

\* Line 182 in one step, no call raising.
Walk(r) ==
    /\ pc[r] = "traverse"
    /\ \E out \in {WalkFolder(Tree(r), <<>>, {}, [emails |-> emails[r], rows |-> rows[r]])} :
          /\ emails' = [emails EXCEPT ![r] = out.emails]
          /\ rows' = [rows EXCEPT ![r] = out.rows]
    /\ stack' = [stack EXCEPT ![r] = <<>>]
    /\ Goto(r, "close")
    /\ UNCHANGED <<faults, handlerVars>>

\* The handler but for the walk.
analyze_pst(r) ==
    \/ Validate(r)
    \/ MakeTempPath(r)
    \/ SaveUpload(r)
    \/ SaveFails(r)
    \/ OpenStore(r)
    \/ OpenFails(r)
    \/ CloseStore(r)
    \/ CloseFails(r)
    \/ EmptyResult(r)
    \/ MakeCsvPath(r)
    \/ WriteCsv(r)
    \/ WriteCsvFails(r)
    \/ Respond(r)
    \/ SerializeFails(r)
    \/ CheckTempExists(r)
    \/ RemoveTemp(r)

\* A second passes.
Tick ==
    /\ now < MaxClock
    /\ now' = now + 1
    /\ UNCHANGED <<files, archive, budget, pc, temp_path, csv_path, saved, opened,
                   stack, emails, rows, faults, response>>

\* ----------------------------------------------------- specifications

\* One extraction run: request 1 has reached line 182 and calls
\* process_pst_folder on the root folder of an archive of the wide tree.
Init ==
    /\ now = 0
    /\ files = [q \in {TempName(0)} |-> [owner |-> 1, whole |-> TRUE]]
    /\ archive \in [Requests -> Archives]
    /\ archive[2] = archive[1]
    /\ budget = [r \in Requests |-> MaxFaults]
    /\ pc = [r \in Requests |-> IF r = 1 THEN "traverse" ELSE "idle"]
    /\ temp_path = [r \in Requests |-> IF r = 1 THEN TempName(0) ELSE <<>>]
    /\ csv_path = [r \in Requests |-> <<>>]
    /\ saved = [r \in Requests |-> r = 1]
    /\ opened = [r \in Requests |-> IF r = 1 THEN 1 ELSE 0]
    /\ stack = [r \in Requests |-> IF r = 1 THEN <<Frame(<<>>)>> ELSE <<>>]
    /\ emails = [r \in Requests |-> <<>>]
    /\ rows = [r \in Requests |-> IF r = 1 THEN <<HeaderRow>> ELSE <<>>]
    /\ faults = [r \in Requests |-> {}]
    /\ response = [r \in Requests |-> NoResponse]

Next == process_pst_folder(1)

Spec == Init /\ [][Next]_vars

\* Two requests at the same time, each with an archive of the small tree,
\* no call of their walks raising.
InitConcurrent ==
    /\ now = 0
    /\ files = << >>
    /\ archive \in [Requests -> SmallArchives]
    /\ budget = [r \in Requests |-> 0]
    /\ pc = [r \in Requests |-> "idle"]
    /\ temp_path = [r \in Requests |-> <<>>]
    /\ csv_path = [r \in Requests |-> <<>>]
    /\ saved = [r \in Requests |-> FALSE]
    /\ opened = [r \in Requests |-> 0]
    /\ stack = [r \in Requests |-> <<>>]
    /\ emails = [r \in Requests |-> <<>>]
    /\ rows = [r \in Requests |-> <<>>]
    /\ faults = [r \in Requests |-> {}]
    /\ response = [r \in Requests |-> NoResponse]

Step(r) == analyze_pst(r) \/ Walk(r)

NextConcurrent == (\E r \in Requests : Step(r)) \/ Tick

\* Each handler runs on until it returns.
ConcurrentSpec ==
    /\ InitConcurrent
    /\ [][NextConcurrent]_vars
    /\ \A r \in Requests : WF_vars(Step(r))

\* The walk in steps and the walk in one step leave the same.
WalkAgrees ==
    pc[1] = "close" =>
        WalkFolder(archive[1], <<>>, faults[1], [emails |-> <<>>, rows |-> <<HeaderRow>>])
          = [emails |-> emails[1], rows |-> rows[1]]


\* ------------------------------------------------------------- claims
\* The claims about process_pst_folder are stated of request 1 under Spec,
\* at the return of the root's call (pc[1] = "close"); those about
\* analyze_pst of every request under ConcurrentSpec.

Ended == pc[1] = "close"

IsPrefix(p, q) == Len(p) <= Len(q) /\ SubSeq(q, 1, Len(p)) = p

Parent(path) == SubSeq(path, 1, Len(path) - 1)

MessageIds(a) == {<<q, i>> : q \in a.folders, i \in 0..(a.nmsgs - 1)}

\* The message a record was built from: its subject names it.
IdOf(a, rec) == CHOOSE id \in MessageIds(a) : SubjectOf(id[1], id[2]) = rec.subject

\* The messages of the tree under path: those of the folder by index, then
\* those of each subfolder by index, each subfolder in the same way.
RECURSIVE DepthFirst(_, _)
RECURSIVE DepthFirstSubs(_, _, _)
DepthFirst(a, path) ==
    [k \in 1..MessageCount(a, path) |-> <<path, k - 1>>] \o DepthFirstSubs(a, path, 0)

DepthFirstSubs(a, path, k) ==
    IF k >= SubFolderCount(a, path) THEN <<>>
    ELSE DepthFirst(a, path \o <<k>>) \o DepthFirstSubs(a, path, k + 1)

\* The record of a message none of whose calls raises.
RecordOf(id) == EmailData(Message(id[1], id[2]), FALSE, {})

RecordsOf(ids) == [k \in 1..Len(ids) |-> RecordOf(ids[k])]

FaultsOfKind(kinds) == {f \in faults[1] : f.k \in kinds}

HasRecord(path, i) ==
    \E k \in 1..Len(emails[1]) : emails[1][k].subject = SubjectOf(path, i)

HasRow(path, i) ==
    \E k \in 2..Len(rows[1]) : rows[1][k][3] = SubjectOf(path, i)

\* The records of the messages under folder path, in the order of emails.
RecordsUnder(path) ==
    SelectSeq(emails[1], LAMBDA rec : IsPrefix(path, IdOf(archive[1], rec)[1]))

\* C1 (as claimed): at the end of a run in which no sink write raises, the
\* data rows of the table are, one for one and in order, the records of
\* emails, each row's six fields being the record's from, to, subject, body,
\* date and its attachments joined with ", ".
DualSinkEquivalence ==
    (Ended /\ FaultsOfKind({"sink"}) = {}) =>
        /\ Len(rows[1]) = Len(emails[1]) + 1
        /\ \A k \in 1..Len(emails[1]) :
              LET rec == emails[1][k]
              IN  rows[1][k + 1] = <<rec.from, rec.to, rec.subject, rec.body, rec.date,
                                     Join[rec.attachments]>>

\* C2: when the only calls that raise are reads of messages (lines 70-77),
\* the run returns with exactly the records of the other messages, as they
\* are and in the order they have in a run where nothing raises.
MessageIsolation ==
    (Ended /\ faults[1] = FaultsOfKind({"read"})) =>
        LET failed == {<<f.p, f.i>> : f \in faults[1]}
        IN  emails[1] = RecordsOf(SelectSeq(DepthFirst(archive[1], <<>>),
                                            LAMBDA id : id \notin failed))

\* A run ended with two messages of the root, the first of which failed.
MessageIsolationWitness ==
    /\ Ended
    /\ archive[1].nmsgs >= 2
    /\ faults[1] = {Fault("read", <<>>, 0, 0)}
    /\ Len(emails[1]) = Len(DepthFirst(archive[1], <<>>)) - 1
    /\ HasRecord(<<>>, 1)

\* C3: when no call raises, emails holds the records of the messages in
\* depth-first order, a folder's messages by index before its subfolders by
\* index.
DepthFirstOrder ==
    (Ended /\ faults[1] = {}) => emails[1] = RecordsOf(DepthFirst(archive[1], <<>>))

\* A run without failure ended over folders that each hold two messages or
\* more.
DepthFirstOrderWitness ==
    /\ Ended
    /\ faults[1] = {}
    /\ archive[1].nmsgs >= 2
    /\ Len(emails[1]) = archive[1].nmsgs * Cardinality(archive[1].folders)

\* C4 (as claimed): when one call raises and it is a read for a subfolder S
\* (its handle, its message count or its subfolder count), the run returns
\* with the records of every sibling of S as in a run where nothing raises,
\* and with the records of the messages of the folder that holds S.
SiblingIsolation ==
    Ended =>
        \A f \in FaultsOfKind({"handle", "msgcount", "subcount"}) :
            (faults[1] = {f} /\ f.p # <<>>) =>
                /\ \A t \in {q \in archive[1].folders :
                                q # f.p /\ Len(q) = Len(f.p) /\ Parent(q) = Parent(f.p)} :
                      RecordsUnder(t) = RecordsOf(DepthFirst(archive[1], t))
                /\ \A i \in 0..(archive[1].nmsgs - 1) : HasRecord(Parent(f.p), i)

\* C8 (as claimed): a message whose row write raises has no record in emails
\* and no row in the table.
AtomicEmission ==
    Ended =>
        \A f \in FaultsOfKind({"sink"}) : ~HasRecord(f.p, f.i) /\ ~HasRow(f.p, f.i)

\* C9 (as claimed): a folder whose message count or subfolder count cannot be
\* read, and every folder beneath it, has no record in emails.
FolderSkipped ==
    Ended =>
        \A f \in FaultsOfKind({"msgcount", "subcount"}) : RecordsUnder(f.p) = <<>>

\* C9 (amended): a folder whose message count cannot be read, and every
\* folder beneath it, has no record in emails; a folder whose subfolder count
\* cannot be read has no record of a folder beneath it, and has the record of
\* each of its own messages whose reads did not raise.
FolderSkippedBelow ==
    Ended =>
        /\ \A f \in FaultsOfKind({"msgcount"}) : RecordsUnder(f.p) = <<>>
        /\ \A f \in FaultsOfKind({"subcount"}) :
              /\ \A k \in 1..Len(emails[1]) :
                    LET at == IdOf(archive[1], emails[1][k])[1]
                    IN  IsPrefix(f.p, at) => at = f.p
              /\ \A i \in 0..(archive[1].nmsgs - 1) :
                    Fault("read", f.p, i, 0) \notin faults[1] => HasRecord(f.p, i)

\* A run ended in which the subfolder count of folder 1, which holds
\* messages and a subfolder with messages, could not be read.
FolderSkippedBelowWitness ==
    /\ Ended
    /\ archive[1].nmsgs >= 1
    /\ Fault("subcount", <<1>>, 0, 0) \in faults[1]
    /\ HasRecord(<<1>>, 0)
    /\ ~HasRecord(<<1, 0>>, 0)

\* The name a slot gives: its long filename if not empty, else its short
\* filename if not empty, else none (<<>>).
SlotName(slot) ==
    IF Truthy(slot.long) THEN decode_if_bytes(slot.long)
    ELSE IF Truthy(slot.short) THEN decode_if_bytes(slot.short)
    ELSE <<>>

\* The names, in slot order, of the slots of message id that read without
\* failure and have a name; none when the count cannot be read.
ExpectedAttachments(id) ==
    LET slots == Message(id[1], id[2]).attachments
        good == SelectSeq([j \in 1..Len(slots) |-> j],
                          LAMBDA j : /\ Fault("slot", id[1], id[2], j - 1) \notin faults[1]
                                     /\ SlotName(slots[j]) # <<>>)
    IN  IF Fault("attcount", id[1], id[2], 0) \in faults[1] THEN <<>>
        ELSE [k \in 1..Len(good) |-> SlotName(slots[good[k]])]

\* C10: every record's attachments are the names of its message's slots
\* that read without failure and have a name, in slot order (none when the
\* count cannot be read); and when the only calls that raise are attachment
\* calls, every message has its record.
AttachmentResolution ==
    Ended =>
        /\ \A k \in 1..Len(emails[1]) :
              emails[1][k].attachments = ExpectedAttachments(IdOf(archive[1], emails[1][k]))
        /\ faults[1] = FaultsOfKind({"attcount", "slot"}) =>
              [k \in 1..Len(emails[1]) |-> emails[1][k].subject]
                = [k \in 1..Len(DepthFirst(archive[1], <<>>)) |->
                      SubjectOf(DepthFirst(archive[1], <<>>)[k][1],
                                DepthFirst(archive[1], <<>>)[k][2])]

\* A run ended in which the first slot of the root's first message could not
\* be read and its second slot, which has a short filename only, gave its
\* name; and the attachment count of another message could not be read.
AttachmentResolutionWitness ==
    /\ Ended
    /\ Fault("slot", <<>>, 0, 0) \in faults[1]
    /\ \E k \in 1..Len(emails[1]) :
          /\ emails[1][k].subject = SubjectOf(<<>>, 0)
          /\ emails[1][k].attachments = << <<"G", "~">> >>
    /\ \E f \in FaultsOfKind({"attcount"}) : HasRecord(f.p, f.i)

\* The upload of request r is still at its temp_path.
OwnTempFile(r) ==
    /\ temp_path[r] # <<>>
    /\ Exists(temp_path[r])
    /\ files[temp_path[r]].owner = r

\* C5 (as claimed): a request whose walk returned with no record ends with
\* the empty-result response, which is not the response to a store that
\* cannot be opened; one whose walk returned with a record never ends with
\* the empty-result response.
EmptyResultCondition ==
    /\ EmptyResultResponse # ExceptionResponse("open")
    /\ \A r \in Requests :
          (pc[r] = "done" /\ opened[r] # 0) =>
              IF Len(emails[r]) = 0
              THEN response[r] = EmptyResultResponse
              ELSE response[r] # EmptyResultResponse

\* C6 (as claimed): two requests in flight never have the same temp_path nor
\* the same csv_path.
ExclusivePaths ==
    \A r1, r2 \in Requests :
        (r1 # r2 /\ InFlight(r1) /\ InFlight(r2)) =>
            /\ temp_path[r1] # <<>> => temp_path[r1] # temp_path[r2]
            /\ csv_path[r1] # <<>> => csv_path[r1] # csv_path[r2]

\* C7: a request that saved its upload at temp_path ends, and ends with that
\* file removed.
TempFileCleanedUp ==
    \A r \in Requests : saved[r] ~> (pc[r] = "done" /\ ~OwnTempFile(r))

\* A request that saved its upload and whose store could not be opened has
\* ended, its upload removed.
TempFileCleanedUpWitness ==
    \E r \in Requests :
        /\ pc[r] = "done"
        /\ saved[r]
        /\ response[r] = ExceptionResponse("open")
        /\ ~Exists(temp_path[r])

====
